---- MODULE Spec2Model ----
(***************************************************************************)
(* The ASCOM Alpaca safety monitor (src/src/ascom_alpaca_safety.py) and    *)
(* the roof classifier's decision engine it polls                          *)
(* (src/src/synthetic_roofstatus.py), as a state machine.                  *)
(*                                                                         *)
(* Eleven specifications share the variables:                              *)
(*   SpecEngine   one call of classify_latest_png after another, on inputs *)
(*                drawn from bounded sets;                                 *)
(*   Spec         the poller thread and a request handler thread, every    *)
(*                access to a shared attribute a step of its own (no lock  *)
(*                exists in the code), in every interleaving;              *)
(*   SpecThreads  two request handler threads, in every interleaving;      *)
(*   SpecSeq      one thing at a time: every endpoint, the poller, stop()  *)
(*                and the discovery responder;                             *)
(*   SpecRequests one request after another, of every method and path and  *)
(*                with ClientTransactionID in the body, the form or the    *)
(*                query, well formed or not;                               *)
(*   SpecDisc     the discovery responder's loop, a step per socket call,  *)
(*                interleaved with stop()'s close and clear;               *)
(*   SpecWindow   one call of calculate_next_observation_window, a step    *)
(*                per turn of its search loops, on every course of the     *)
(*                sun over the search's horizon; SpecWindowLive adds the   *)
(*                fairness of the thread that runs the call.               *)
(*   SpecApp      the application's start and stop of the server and of    *)
(*                monitoring, and the monitoring loops, interleaved;       *)
(*   SpecSecondary one call of read_secondary_source after another, on     *)
(*                every state of the source file;                          *)
(*   SpecDisplay  one refresh of the observation window label after        *)
(*                another, on every outcome of its calculation.            *)
(*                                                                         *)
(* Sun angles and thresholds are integers (degrees): the code only         *)
(* compares them.                                                          *)
(***************************************************************************)
EXTENDS Integers, Sequences, FiniteSets, TLC

(* ------------------------------ bounds -------------------------------- *)

\* Lines the status file may hold before the model stops appending.
MaxLog == 1

\* Poll cycles the background thread begins.
MaxCycles == 2

\* HTTP requests the server receives.
MaxRequests == 2

\* Discovery replies the responder sends.
MaxReplies == 1

\* Half-hour steps of the window search that make 24 hours (48 in the code:
\* the model's day is shorter, the search's structure is the code's).
Day == 3

\* Servers the application starts, the one of the initial state included.
MaxServers == 2

\* monitor_loop threads start_monitoring starts.
MaxLoops == 2

\* Seconds of the countdown between two classifications (60 by default in
\* the code, line 890, one tick of the loop each).
check_interval == 2

\* The monitor_loop threads start_monitoring can have started.
Loops == 1 .. MaxLoops

\* Lines of a secondary source file.
MaxLines == 2

SunAngles == -1 .. 1

Thresholds == -1 .. 1

(* --------------------- the decision engine's inputs -------------------- *)

\* What ephem yields for the observer: an elevation, or an exception
\* (latitude or longitude that float() rejects).
SunReadings ==
    {[ok |-> TRUE, deg |-> d] : d \in SunAngles} \cup {[ok |-> FALSE, deg |-> 0]}

\* The sun_angle_threshold setting: a number, or text float() rejects.
ThresholdSettings ==
    {[ok |-> TRUE, deg |-> d] : d \in Thresholds} \cup {[ok |-> FALSE, deg |-> 0]}

\* The monitored folder: not a directory, without PNG files, or with a
\* latest PNG file.
Folders == {"invalid", "empty", "png"}

\* What the model predicts for the latest image; "error" is an image
\* cv2 cannot read or a predict() that raises.
Predictions == {"OPEN", "CLOSED", "error"}

\* The secondary source: not enabled (or without a path), a path that does
\* not exist, a file without lines, a file that cannot be read, or a file
\* whose last line holds neither word, holds "closed", or holds "Open".
SecondarySources ==
    {"disabled", "missing", "empty", "unreadable", "unparsable",
     "closed", "Open"}

\* One call's environment: what the call reads.  A component the call never
\* reaches (the folder without a model, the image without a PNG file, the sun
\* without a prediction) is no input of it and stays at its default.
NoEnv ==
    [model |-> FALSE, folder |-> "invalid", pred |-> "error",
     sun |-> [ok |-> FALSE, deg |-> 0], threshold |-> [ok |-> FALSE, deg |-> 0],
     writable |-> FALSE, secondary |-> "disabled"]

Envs ==
    {NoEnv}
    \cup {[NoEnv EXCEPT !.model = TRUE, !.folder = f] : f \in Folders}
    \cup {[model |-> TRUE, folder |-> "png", pred |-> p, sun |-> s,
           threshold |-> th, writable |-> w, secondary |-> "disabled"] :
             p \in {"OPEN", "CLOSED"}, s \in SunReadings,
             th \in ThresholdSettings, w \in BOOLEAN}

\* The environments of the application's own monitoring loop: those above,
\* with the secondary source in each of its states.
SecondaryEnvs ==
    Envs \cup {[e EXCEPT !.secondary = src] :
                 e \in {x \in Envs : x.model /\ x.folder = "png"},
                 src \in SecondarySources}

(* ------------------------- the decision engine ------------------------- *)

OverrideSuffix == " (Sun too high - safety override)"

\* calculate_sun_angle: the elevation, 0.0 when the computation raises.
calculate_sun_angle(reading) == IF reading.ok THEN reading.deg ELSE 0

is_sun_safe_for_open_le(reading, setting) ==
    IF setting.ok THEN calculate_sun_angle(reading) <= setting.deg ELSE TRUE

\* is_sun_safe_for_open: sun_angle < threshold; True when float(threshold)
\* raises (the except branch returns True).
is_sun_safe_for_open(reading, setting) ==
    IF setting.ok THEN calculate_sun_angle(reading) < setting.deg ELSE TRUE

GuardRails_always_closed(image_status, sun_safe) ==
    IF image_status = "OPEN"
    THEN [final_status |-> "CLOSED", override_reason |-> OverrideSuffix]
    ELSE [final_status |-> image_status, override_reason |-> ""]

GuardRails_reverse(image_status, sun_safe) ==
    IF image_status = "OPEN" /\ ~sun_safe
    THEN [final_status |-> "CLOSED", override_reason |-> OverrideSuffix]
    ELSE [final_status |-> IF sun_safe THEN "OPEN" ELSE image_status,
          override_reason |-> ""]

\* The sun angle guard rails of classify_latest_png.
GuardRails(image_status, sun_safe) ==
    IF image_status = "OPEN" /\ ~sun_safe
    THEN [final_status |-> "CLOSED", override_reason |-> OverrideSuffix]
    ELSE [final_status |-> image_status, override_reason |-> ""]

\* The line classify_latest_png appends to the output file (the timestamp
\* prefix is the wall clock's and left out).
StatusLine_always_suffix(final_status, override_reason) ==
    [status |-> final_status, suffix |-> OverrideSuffix]

StatusLine(final_status, override_reason) ==
    [status |-> final_status, suffix |-> override_reason]

\* A line of text: its characters.  str.upper, on the letters the lines
\* below are written with.
UpperChar(c) ==
    CASE c = "o" -> "O" [] c = "p" -> "P" [] c = "e" -> "E" [] c = "n" -> "N"
      [] c = "c" -> "C" [] c = "l" -> "L" [] c = "s" -> "S" [] c = "d" -> "D"
      [] OTHER -> c

Upper(text) == [i \in 1 .. Len(text) |-> UpperChar(text[i])]

Whitespace == {" ", "\n"}

\* str.strip: without the whitespace at both ends.
RECURSIVE Strip(_)
Strip(text) ==
    IF text = << >> THEN text
    ELSE IF text[1] \in Whitespace THEN Strip(Tail(text))
    ELSE IF text[Len(text)] \in Whitespace
    THEN Strip(SubSeq(text, 1, Len(text) - 1))
    ELSE text

\* word in text.
In(word, text) ==
    \E i \in 1 .. Len(text) - Len(word) + 1 :
        SubSeq(text, i, i + Len(word) - 1) = word

OPEN == << "O", "P", "E", "N" >>

CLOSED == << "C", "L", "O", "S", "E", "D" >>

\* The lines a secondary source file is made of.
LineTexts ==
    {<< "O", "P", "E", "N", "\n" >>,
     << "c", "l", "o", "s", "e", "d", "\n" >>,
     << "C", "l", "o", "s", "e", "d", " ", "o", "p", "e", "n" >>,
     << "o", "p", "e", " ", "n", "\n" >>,
     << "\n" >>}

LinesOf(n) == UNION {[1 .. k -> LineTexts] : k \in 0 .. n}

\* The secondary source as read_secondary_source finds it: the checkbox, the
\* path entered or not, and at the path no file, a file open() or
\* getmtime() fails on, or a file of lines.
SecondaryFilesOf(n) ==
    {[enabled |-> en, path |-> pa, exists |-> ex, readable |-> rd,
      lines |-> ls] :
        en \in BOOLEAN, pa \in BOOLEAN, ex \in BOOLEAN, rd \in BOOLEAN,
        ls \in LinesOf(n)}

SecondaryFiles == SecondaryFilesOf(MaxLines)

NoFile ==
    [enabled |-> FALSE, path |-> FALSE, exists |-> FALSE, readable |-> FALSE,
     lines |-> << >>]

\* lines[-1].strip(), line 330.
last_line_first(lines) == Strip(lines[1])

last_line(lines) == Strip(lines[Len(lines)])

\* read_secondary_source on the file f: the status in the last line, ""
\* (None) when the source is disabled or has no path (line 310), is missing
\* (line 315), is empty (line 325) or holds neither word (line 338), and when
\* reading raised: the except branch (line 348) returns (None, None).
read_secondary_file(f) ==
    [raised |-> FALSE,
     status |->
        IF ~f.enabled \/ ~f.path THEN ""
        ELSE IF ~f.exists THEN ""
        ELSE IF ~f.readable THEN ""
        ELSE IF f.lines = << >> THEN ""
        ELSE IF In(OPEN, Upper(last_line(f.lines))) THEN "OPEN"
        ELSE IF In(CLOSED, Upper(last_line(f.lines))) THEN "CLOSED"
        ELSE ""]

\* The file behind each state of the secondary source named in an
\* environment.
SecondaryFile(source) ==
    LET file(ls) == [enabled |-> TRUE, path |-> TRUE, exists |-> TRUE,
                     readable |-> TRUE, lines |-> ls]
    IN  CASE source = "disabled" -> NoFile
          [] source = "missing" -> [file(<< >>) EXCEPT !.exists = FALSE]
          [] source = "empty" -> file(<< >>)
          [] source = "unreadable" -> [file(<< >>) EXCEPT !.readable = FALSE]
          [] source = "unparsable" -> file(<< << "?", "\n" >> >>)
          [] source = "closed" ->
               file(<< << "c", "l", "o", "s", "e", "d", "\n" >> >>)
          [] source = "Open" -> file(<< << " ", "O", "p", "e", "n" >> >>)

read_secondary_source_raises(source) ==
    [raised |-> source = "unreadable",
     status |-> read_secondary_file(SecondaryFile(source)).status]

\* read_secondary_source in the environment's state of the source.
read_secondary_source(source) == read_secondary_file(SecondaryFile(source))

\* The part of the analysis log message that names the secondary source.
LogSecondary(secondary_status) ==
    IF secondary_status # "" THEN secondary_status ELSE "Not available"

NoDecision ==
    [outcome |-> "none", filename |-> "", status |-> "",
     image_status |-> "", sun_safe |-> FALSE, overridden |-> FALSE,
     lines |-> << >>, log_secondary |-> ""]

\* classify_latest_png on environment e.  outcome is "returned" or "raised";
\* filename and status are the returned pair (filename "" is None); lines is
\* what the call appended to the output file.
classify_latest_png(e) ==
    IF ~e.model \/ e.folder = "invalid"
    THEN [NoDecision EXCEPT !.outcome = "returned",
                            !.status = "No model or invalid folder"]
    ELSE IF e.folder = "empty"
    THEN [NoDecision EXCEPT !.outcome = "returned",
                            !.status = "No PNG files found"]
    ELSE IF read_secondary_source(e.secondary).raised
    THEN [NoDecision EXCEPT !.outcome = "raised"]
    ELSE IF e.pred = "error"
    THEN [NoDecision EXCEPT !.outcome = "raised"]
    ELSE LET sun_safe == is_sun_safe_for_open(e.sun, e.threshold)
             g == GuardRails(e.pred, sun_safe)
             secondary_status == read_secondary_source(e.secondary).status
             d == [NoDecision EXCEPT
                      !.image_status = e.pred,
                      !.sun_safe = sun_safe,
                      !.status = g.final_status,
                      !.overridden = (g.override_reason # ""),
                      !.log_secondary = LogSecondary(secondary_status)]
         IN IF e.writable
            THEN [d EXCEPT !.outcome = "returned", !.filename = "latest.png",
                           !.lines = << StatusLine(g.final_status,
                                                   g.override_reason) >>]
            ELSE [d EXCEPT !.outcome = "raised"]

(* ------------------------------- state -------------------------------- *)

VARIABLES
    output_file,            \* the lines of the status file (output_path)
    env,                    \* SpecEngine: the environment of the last call
    decision,               \* SpecEngine: what the last call computed
    roof_classifier_app,    \* whether the monitor was given the application
    connected,              \* AscomAlpacaSafetyMonitor.connected
    is_safe,                \* .is_safe
    last_update,            \* .last_update: the cycle whose clock it holds
    last_error,             \* .last_error
    server_transaction_id,  \* ._server_transaction_id, NoAttr until first set
    discovery_socket,       \* .discovery_socket: "none", "open" or "closed"
    pollerPc,               \* where update_safety_status stands
    poll,                   \* its locals
    cycle,                  \* poll cycles begun: the poller's clock
    stopPc,                 \* where stop() stands
    discPc,                 \* where discovery_responder stands
    replies,                \* the discovery replies sent, in the order sent
    datagram,               \* the datagram discovery_responder has in hand
    disc_errors,            \* the errors discovery_responder has logged
    disc_warnings,          \* the warnings start_discovery_responder has logged
    pc,                     \* per handler thread: the steps still to take
    req,                    \* per handler thread: the request in hand
    loc,                    \* per handler thread: the handler's locals
    responses,              \* the responses sent, in the order sent
    wrote,                  \* history: the poll cycle that last wrote is_safe
                            \* and last_error, and whether is_safe was
                            \* written by a successful update (line 492)
    sky,                    \* what ephem gives calculate_next_observation_window
    win,                    \* where that call stands, and its locals
    window,                 \* what the call returned
    evaluations,            \* history: the times sun.compute was run for
    ascom_server,           \* the application holds a server (self.ascom_server)
    update_threads,         \* update_safety_status threads alive in the process
    stop_monitor,           \* the application's self.stop_monitor flag
    loopPc,                 \* per monitor_loop thread: where it stands
    remaining,              \* per monitor_loop thread: countdown ticks left
    told,                   \* history: the loops alive at a stop_monitoring
    secondary_source,       \* the secondary source read_secondary_source found
    secondary_read,         \* what read_secondary_source made of it
    obs,                    \* what format_observation_window's call found
    obs_window_label        \* the text it returned for the window label

engineVars == << env, decision >>

stateVars == << connected, is_safe, last_update, last_error >>

pollerVars == << pollerPc, poll, cycle >>

discVars == << discPc, replies, datagram, disc_errors, disc_warnings >>

ghostVars == << wrote >>

windowVars == << sky, win, window, evaluations >>

appVars ==
    << ascom_server, update_threads, stop_monitor, loopPc, remaining, told >>

fnVars == << secondary_source, secondary_read, obs, obs_window_label >>

threadVars == << pc, req, loc, responses >>

vars ==
    << output_file, env, decision, roof_classifier_app, connected, is_safe,
       last_update, last_error, server_transaction_id, discovery_socket,
       pollerPc, poll, cycle, stopPc, discPc, replies, datagram, disc_errors, disc_warnings,
       pc, req, loc,
       responses, wrote, sky, win, window, evaluations, ascom_server,
       update_threads, stop_monitor, loopPc, remaining, told,
       secondary_source, secondary_read, obs, obs_window_label >>

\* hasattr(self, '_server_transaction_id') is false.
NoAttr == -1

\* get_request_parameter's None: no source holds the parameter.
NoValue == -1

Threads == {1, 2}

NoRequest ==
    [method |-> "", endpoint |-> "", param |-> "",
     json |-> "", form |-> "", query |-> ""]

NoLocals ==
    [v_connected |-> FALSE, v_is_safe |-> FALSE, v_last_update |-> 0,
     v_last_error |-> "", roof_status |-> "", tmp |-> 0, errno |-> 0,
     client_transaction_id |-> NoValue,
     w_is_safe |-> 0, w_ok |-> FALSE, w_last_error |-> 0]

\* The attributes as __init__ wrote them, before any poll cycle.
NoWrite == [is_safe |-> 0, last_error |-> 0, ok |-> FALSE]

NoDatagram == [data |-> << >>, addr |-> ""]

\* The window calculator's None.  Its times count the half-hour steps of
\* the search from the moment of the call, ephem.now().
NoTime == -1

\* Before read_secondary_source was called.
NoRead == [raised |-> FALSE, status |-> "unread"]

\* calculate_observation_window's "Never" (line 1573).
Never == -2

\* What next_rising and next_setting give calculate_observation_window: an
\* instant, or an exception (the sun is always up, or never up).
Findings ==
    {[raised |-> TRUE, time |-> NoTime]}
    \cup {[raised |-> FALSE, time |-> t] : t \in 1 .. 2 * Day}

\* What calculate_observation_window reads: settings float() accepts or
\* not, the sun now below the threshold or not, and the two findings.
ObsSkies ==
    [numeric : BOOLEAN, below : BOOLEAN, rising : Findings,
     setting : Findings]

NoObs ==
    [numeric |-> FALSE, below |-> FALSE,
     rising |-> [raised |-> TRUE, time |-> NoTime],
     setting |-> [raised |-> TRUE, time |-> NoTime]]

NoLabel == [text |-> "", from |-> NoTime, to |-> NoTime]

NoSky == [degree_per_degree |-> FALSE, elevation |-> << >>]

NoWin ==
    [pc |-> "idle", search_time |-> NoTime, end_time |-> NoTime,
     start_next |-> NoTime, end_next |-> NoTime]

NoWindow ==
    [kind |-> "pending", current_end |-> NoTime, next_start |-> NoTime,
     next_end |-> NoTime, in_window |-> FALSE]

NoPoll ==
    [branch |-> "", status |-> "", is_safe |-> FALSE, failure |-> "",
     sun_below |-> FALSE, unavailable |-> FALSE]


InitState_socket_kept(app, bound) ==
    /\ output_file = << >>
    /\ env = NoEnv
    /\ decision = NoDecision
    /\ roof_classifier_app = app
    /\ connected = FALSE
    /\ is_safe = TRUE
    /\ last_update = 0
    /\ last_error = ""
    /\ server_transaction_id = NoAttr
    /\ discovery_socket = IF bound THEN "open" ELSE "closed"
    /\ pollerPc = "check"
    /\ poll = NoPoll
    /\ cycle = 1
    /\ stopPc = "idle"
    /\ discPc = IF bound THEN "recv" ELSE "none"
    /\ replies = << >>
    /\ datagram = NoDatagram
    /\ disc_errors = 0
    /\ disc_warnings = IF bound THEN 0 ELSE 1
    /\ pc = [t \in Threads |-> << >>]
    /\ req = [t \in Threads |-> NoRequest]
    /\ loc = [t \in Threads |-> NoLocals]
    /\ responses = << >>
    /\ wrote = NoWrite
    /\ sky = NoSky
    /\ win = NoWin
    /\ window = NoWindow
    /\ evaluations = << >>
    /\ ascom_server = app
    /\ update_threads = 1
    /\ stop_monitor = FALSE
    /\ loopPc = [l \in Loops |-> "unborn"]
    /\ remaining = [l \in Loops |-> 0]
    /\ told = {}
    /\ secondary_source = NoFile
    /\ secondary_read = NoRead
    /\ obs = NoObs
    /\ obs_window_label = NoLabel

\* __init__: the state of a monitor just constructed, with or without the
\* application, the bind of the discovery port having succeeded or failed
\* (start_discovery_responder then starts no thread and leaves the socket
\* None).  The update thread is started and stands at the top of its loop.
InitState(app, bound) ==
    /\ output_file = << >>
    /\ env = NoEnv
    /\ decision = NoDecision
    /\ roof_classifier_app = app
    /\ connected = FALSE
    /\ is_safe = TRUE
    /\ last_update = 0
    /\ last_error = ""
    /\ server_transaction_id = NoAttr
    /\ discovery_socket = IF bound THEN "open" ELSE "none"
    /\ pollerPc = "check"
    /\ poll = NoPoll
    /\ cycle = 1
    /\ stopPc = "idle"
    /\ discPc = IF bound THEN "recv" ELSE "none"
    /\ replies = << >>
    /\ datagram = NoDatagram
    /\ disc_errors = 0
    /\ disc_warnings = IF bound THEN 0 ELSE 1
    /\ pc = [t \in Threads |-> << >>]
    /\ req = [t \in Threads |-> NoRequest]
    /\ loc = [t \in Threads |-> NoLocals]
    /\ responses = << >>
    /\ wrote = NoWrite
    /\ sky = NoSky
    /\ win = NoWin
    /\ window = NoWindow
    /\ evaluations = << >>
    /\ ascom_server = app
    /\ update_threads = 1
    /\ stop_monitor = FALSE
    /\ loopPc = [l \in Loops |-> "unborn"]
    /\ remaining = [l \in Loops |-> 0]
    /\ told = {}
    /\ secondary_source = NoFile
    /\ secondary_read = NoRead
    /\ obs = NoObs
    /\ obs_window_label = NoLabel

Init == \E app \in BOOLEAN, bound \in BOOLEAN : InitState(app, bound)

\* The monitor the application starts, with the discovery port bound.
InitBound == InitState(TRUE, TRUE)

(* --------------------------- SpecEngine ------------------------------- *)

\* One call of the engine by the application's monitoring loop.
Decide(e) ==
    /\ Len(output_file) + Len(classify_latest_png(e).lines) <= MaxLog
    /\ env' = e
    /\ decision' = classify_latest_png(e)
    /\ output_file' = output_file \o decision'.lines
    /\ UNCHANGED << roof_classifier_app,
                    windowVars, appVars, fnVars, stateVars, server_transaction_id,
                    discovery_socket, pollerVars, stopPc, discVars, threadVars,
                    ghostVars >>

EngineNext == \E e \in SecondaryEnvs : Decide(e)

SpecEngine == InitBound /\ [][EngineNext]_vars

(* ------------------- update_safety_status (the poller) ----------------- *)

\* The classifier result is undeterminable: no model, no monitored folder,
\* or no PNG file in it.
Undeterminable(e) == ~e.model \/ e.folder \in {"invalid", "empty"}

\* The step of a call of the engine on e that failed, "" when none did:
\* the classifier raised, ephem raised (calculate_sun_angle absorbs it),
\* float(threshold) raised (is_sun_safe_for_open absorbs it), or the output
\* file could not be appended to.
EngineFailure(e) ==
    IF ~e.model \/ e.folder # "png" THEN ""
    ELSE IF e.pred = "error" THEN "classifier"
    ELSE IF ~e.sun.ok THEN "sun_angle"
    ELSE IF ~e.threshold.ok THEN "threshold"
    ELSE IF ~e.writable THEN "io"
    ELSE ""

\* The poller's locals once a cycle has ended: the branch it took, and
\* whether the engine had no classification to give.
EndOfCycle ==
    [NoPoll EXCEPT !.branch = poll.branch, !.unavailable = poll.unavailable]

\* Line 482: the loop's test of roof_classifier_app and connected.
PollCheck ==
    /\ pollerPc = "check"
    /\ pollerPc' = IF roof_classifier_app /\ connected
                   THEN "classify" ELSE "default_safe"
    /\ poll' = [NoPoll EXCEPT !.branch =
                   IF roof_classifier_app /\ connected
                   THEN "connected" ELSE "disconnected"]
    /\ UNCHANGED << output_file, engineVars, roof_classifier_app,
                    windowVars, appVars, fnVars, stateVars,
                    server_transaction_id, discovery_socket, cycle, stopPc, discVars,
                    threadVars, ghostVars >>

\* Lines 484-486 and 499-502: the call of the engine and the test of status.
\* Every status the engine returns is a non-empty string, so `if status:`
\* takes its first branch on each of them; the else branch (is_safe = False,
\* last_error = "Unable to determine roof status") is what an empty status
\* would take.
PollClassify(e) ==
    /\ pollerPc = "classify"
    /\ LET d == classify_latest_png(e) IN
       /\ Len(output_file) + Len(d.lines) <= MaxLog
       /\ output_file' = output_file \o d.lines
       /\ IF d.outcome = "raised"
          THEN /\ pollerPc' = "except_safe"
               /\ poll' = [poll EXCEPT !.branch = "exception",
                                       !.failure = EngineFailure(e)]
               /\ UNCHANGED << is_safe, last_error, ghostVars >>
          ELSE IF d.status # ""
          THEN /\ pollerPc' = "sun_safe"
               /\ poll' = [poll EXCEPT !.status = d.status,
                                       !.failure = EngineFailure(e),
                                       !.unavailable = Undeterminable(e)]
               /\ UNCHANGED << is_safe, last_error, ghostVars >>
          ELSE /\ pollerPc' = "sleep"
               /\ poll' = [NoPoll EXCEPT !.branch = "undetermined",
                                         !.unavailable = TRUE]
               /\ is_safe' = FALSE
               /\ last_error' = "Unable to determine roof status"
               /\ wrote' = [is_safe |-> cycle, last_error |-> cycle, ok |-> FALSE]
    /\ UNCHANGED << engineVars, roof_classifier_app,
                    windowVars, appVars, fnVars, connected, last_update,
                    server_transaction_id, discovery_socket, cycle, stopPc, discVars,
                    threadVars >>

\* Lines 488-492: roof_open, the poller's own is_sun_safe_for_open (a second
\* reading of the sun and of the threshold) and the value for is_safe.
\* sun_below is history: whether the angle read was below the threshold read.
PollSunSafe(reading, setting) ==
    /\ pollerPc = "sun_safe"
    /\ pollerPc' = "write_safe"
    /\ poll' = [poll EXCEPT
          !.branch = "updated",
          !.status = "",
          !.is_safe = (poll.status = "OPEN")
                          /\ is_sun_safe_for_open(reading, setting),
          !.sun_below = reading.ok /\ setting.ok
                          /\ reading.deg < setting.deg,
          !.failure = IF poll.failure # "" THEN poll.failure
                      ELSE IF ~reading.ok THEN "sun_angle"
                      ELSE IF ~setting.ok THEN "threshold"
                      ELSE ""]
    /\ UNCHANGED << output_file, engineVars, roof_classifier_app,
                    windowVars, appVars, fnVars, stateVars,
                    server_transaction_id, discovery_socket, cycle, stopPc, discVars,
                    threadVars, ghostVars >>

PollWriteSafe_negated ==
    /\ pollerPc = "write_safe"
    /\ is_safe' = ~poll.is_safe
    /\ pollerPc' = "write_update"
    /\ wrote' = [wrote EXCEPT !.is_safe = cycle, !.ok = TRUE]
    /\ UNCHANGED << output_file, engineVars, roof_classifier_app,
                    windowVars, appVars, fnVars, connected,
                    last_update, last_error, server_transaction_id,
                    discovery_socket, poll, cycle, stopPc, discVars, threadVars >>

\* Line 492: self.is_safe = roof_open and sun_safe.
PollWriteSafe ==
    /\ pollerPc = "write_safe"
    /\ is_safe' = poll.is_safe
    /\ pollerPc' = "write_update"
    /\ wrote' = [wrote EXCEPT !.is_safe = cycle, !.ok = TRUE]
    /\ UNCHANGED << output_file, engineVars, roof_classifier_app,
                    windowVars, appVars, fnVars, connected,
                    last_update, last_error, server_transaction_id,
                    discovery_socket, poll, cycle, stopPc, discVars, threadVars >>

\* Line 494: self.last_update = datetime.now(timezone.utc).
PollWriteUpdate ==
    /\ pollerPc = "write_update"
    /\ last_update' = cycle
    /\ pollerPc' = "write_error"
    /\ UNCHANGED << output_file, engineVars, roof_classifier_app,
                    windowVars, appVars, fnVars, connected,
                    is_safe, last_error, server_transaction_id,
                    discovery_socket, poll, cycle, stopPc, discVars, threadVars,
                    ghostVars >>

\* Line 495: self.last_error = "", which ends the successful update.
PollWriteError ==
    /\ pollerPc = "write_error"
    /\ last_error' = ""
    /\ pollerPc' = "sleep"
    /\ poll' = EndOfCycle
    /\ wrote' = [wrote EXCEPT !.last_error = cycle]
    /\ UNCHANGED << output_file, engineVars, roof_classifier_app,
                    windowVars, appVars, fnVars, connected,
                    is_safe, last_update, server_transaction_id,
                    discovery_socket, cycle, stopPc, discVars, threadVars >>

PollDefaultSafe_unsafe ==
    /\ pollerPc = "default_safe"
    /\ is_safe' = FALSE
    /\ pollerPc' = "sleep"
    /\ wrote' = [wrote EXCEPT !.is_safe = cycle, !.ok = FALSE]
    /\ UNCHANGED << output_file, engineVars, roof_classifier_app,
                    windowVars, appVars, fnVars, connected,
                    last_update, last_error, server_transaction_id,
                    discovery_socket, poll, cycle, stopPc, discVars, threadVars >>

\* Line 506: not connected, or no classifier: self.is_safe = True.
PollDefaultSafe ==
    /\ pollerPc = "default_safe"
    /\ is_safe' = TRUE
    /\ pollerPc' = "sleep"
    /\ wrote' = [wrote EXCEPT !.is_safe = cycle, !.ok = FALSE]
    /\ UNCHANGED << output_file, engineVars, roof_classifier_app,
                    windowVars, appVars, fnVars, connected,
                    last_update, last_error, server_transaction_id,
                    discovery_socket, poll, cycle, stopPc, discVars, threadVars >>

PollExceptSafe_disconnect ==
    /\ pollerPc = "except_safe"
    /\ is_safe' = FALSE
    /\ connected' = FALSE
    /\ pollerPc' = "except_error"
    /\ wrote' = [wrote EXCEPT !.is_safe = cycle, !.ok = FALSE]
    /\ UNCHANGED << output_file, engineVars, roof_classifier_app,
                    windowVars, appVars, fnVars,
                    last_update, last_error, server_transaction_id,
                    discovery_socket, poll, cycle, stopPc, discVars, threadVars >>

\* Line 509: the except branch's self.is_safe = False.
PollExceptSafe ==
    /\ pollerPc = "except_safe"
    /\ is_safe' = FALSE
    /\ pollerPc' = "except_error"
    /\ wrote' = [wrote EXCEPT !.is_safe = cycle, !.ok = FALSE]
    /\ UNCHANGED << output_file, engineVars, roof_classifier_app,
                    windowVars, appVars, fnVars, connected,
                    last_update, last_error, server_transaction_id,
                    discovery_socket, poll, cycle, stopPc, discVars, threadVars >>

\* Line 510: the except branch's self.last_error = "Error updating ...".
PollExceptError ==
    /\ pollerPc = "except_error"
    /\ last_error' = "Error updating safety status"
    /\ pollerPc' = "sleep"
    /\ poll' = EndOfCycle
    /\ wrote' = [wrote EXCEPT !.last_error = cycle]
    /\ UNCHANGED << output_file, engineVars, roof_classifier_app,
                    windowVars, appVars, fnVars, connected,
                    is_safe, last_update, server_transaction_id,
                    discovery_socket, cycle, stopPc, discVars, threadVars >>

\* Line 513 and back to line 480: time.sleep(30) returns and the loop, which
\* tests nothing but True, begins its next cycle.
PollSleep ==
    /\ pollerPc = "sleep"
    /\ cycle < MaxCycles
    /\ cycle' = cycle + 1
    /\ pollerPc' = "check"
    /\ poll' = NoPoll
    /\ UNCHANGED << output_file, engineVars, roof_classifier_app,
                    windowVars, appVars, fnVars, stateVars,
                    server_transaction_id, discovery_socket, stopPc, discVars,
                    threadVars, ghostVars >>

PollerNext ==
    \/ PollCheck
    \/ \E e \in Envs : PollClassify(e)
    \/ \E reading \in SunReadings, setting \in ThresholdSettings :
          PollSunSafe(reading, setting)
    \/ PollWriteSafe
    \/ PollWriteUpdate
    \/ PollWriteError
    \/ PollDefaultSafe
    \/ PollExceptSafe
    \/ PollExceptError
    \/ PollSleep

(* ---------------------------- the requests --------------------------- *)

\* The routes setup_routes registers for GET (lines 220-245, 315-372,
\* 432-437) and for PUT (lines 315, 375-417).
GetRoutes ==
    {"apiversions", "mgmt_description", "configureddevices", "setup",
     "connected", "issafe", "name", "description", "driverinfo",
     "driverversion", "interfaceversion", "supportedactions", "lastupdate",
     "status"}

PutRoutes == {"connected", "action", "commandblind", "commandbool", "commandstring"}

\* Paths under /api/v1/safetymonitor/<int>/, which catch_all_device matches.
DevicePaths ==
    (GetRoutes \ {"apiversions", "mgmt_description", "configureddevices", "setup"})
        \cup PutRoutes \cup {"unknown_device"}

\* The values of the Connected parameter: absent (""), or a text.
ConnectedParams == {"", "true", "True", "1", "false", "abc"}

\* The values of ClientTransactionID: absent (""), an integer, or a text
\* int() rejects.
ClientIds == {"", "7", "x"}

\* str(value).lower()
Lower(text) == IF text = "True" THEN "true" ELSE text

\* get_request_parameter(_, bool) on a value that is present.
ParseBool(text) == Lower(text) \in {"true", "1", "yes", "on"}

\* The handler werkzeug dispatches a request to: the route of its path when
\* the method is one of the route's, else the device catch-all (GET, PUT,
\* POST under the device path), else the top-level catch-all (GET, PUT, POST
\* on a non-empty path); "http_error" is werkzeug's 404 or 405, which
\* handle_error answers.
Route(r) ==
    IF r.method = "GET" /\ r.endpoint \in GetRoutes THEN r.endpoint
    ELSE IF r.method = "PUT" /\ r.endpoint \in PutRoutes THEN r.endpoint
    ELSE IF r.method \in {"GET", "PUT", "POST"} /\ r.endpoint \in DevicePaths
    THEN "catch_all_device"
    ELSE IF r.method \in {"GET", "PUT", "POST"} /\ r.endpoint # "root"
    THEN "catch_all"
    ELSE "http_error"

\* The ErrorNumber the handler passes to get_ascom_response.
HandlerErrorNumber(route) ==
    IF route \in {"action", "commandblind", "commandbool", "commandstring",
                  "catch_all_device", "catch_all", "http_error"}
    THEN 1 ELSE 0

\* The accesses to shared attributes a handler makes before it builds its
\* response, in the order the code evaluates them.
HandlerSteps(r, has_app) ==
    LET route == Route(r) IN
    IF route = "connected" /\ r.method = "GET" THEN << "read_connected" >>
    ELSE IF route = "connected"
    THEN (IF r.param # "" THEN << "write_connected" >> ELSE << >>)
    ELSE IF route = "issafe" THEN << "read_is_safe", "read_last_error" >>
    ELSE IF route = "lastupdate" THEN << "read_last_update" >>
    ELSE IF route = "status"
    THEN (IF has_app THEN << "classify" >> ELSE << >>)
         \o << "read_is_safe", "read_last_update", "read_last_error" >>
    ELSE IF route = "setup"
    THEN << "read_connected", "read_is_safe", "read_last_update" >>
    ELSE << >>

\* The whole of a request's steps: the handler's, then the page (setup) or
\* get_ascom_response.
RequestSteps(r, has_app) ==
    HandlerSteps(r, has_app)
        \o (IF Route(r) = "setup" THEN << "html" >> ELSE << "resp_hasattr" >>)

\* The texts of ClientTransactionID that int() accepts.
IntTexts == {"7", "8"}

\* int(value) on a text of IntTexts.
ParseInt(text) == IF text = "7" THEN 7 ELSE 8

get_request_parameter_query_first(r) ==
    IF r.query # "" THEN r.query
    ELSE IF r.form # "" THEN r.form
    ELSE r.json

\* get_request_parameter('ClientTransactionID', _), lines 145-159: the value
\* of the JSON body when it holds one, else the form's, else the query's;
\* "" is None.
get_request_parameter(r) ==
    IF r.json # "" THEN r.json
    ELSE IF r.form # "" THEN r.form
    ELSE r.query

\* Requests that carry ClientTransactionID c where an Alpaca client puts it:
\* in the form of a PUT or POST, in the query of the others.
Requests(methods, endpoints, params, ctids) ==
    {[method |-> m, endpoint |-> ep,
      param |-> IF m = "PUT" /\ ep = "connected" THEN p ELSE "",
      json |-> "",
      form |-> IF m \in {"PUT", "POST"} THEN c ELSE "",
      query |-> IF m \in {"PUT", "POST"} THEN "" ELSE c] :
        m \in methods, ep \in endpoints, p \in params, c \in ctids}

\* SpecSeq: every route, the unknown paths, the methods no route takes, each
\* value of the Connected parameter, and ClientTransactionID present, absent
\* and malformed on a route of each kind.
AllRequests ==
    Requests({"GET"}, GetRoutes \cup {"unknown_device", "unknown_path", "root"},
             {""}, {""})
    \cup Requests({"GET"}, {"name", "setup"}, {""}, ClientIds)
    \cup Requests({"PUT"}, {"connected"}, ConnectedParams, {""})
    \cup Requests({"PUT"}, {"connected", "action"}, {"true"}, ClientIds)
    \cup Requests({"PUT"}, (PutRoutes \ {"connected"}) \cup {"issafe", "setup"},
                  {""}, {""})
    \cup Requests({"POST", "DELETE"}, {"unknown_device"}, {""}, {""})

\* Requests with ClientTransactionID in each combination of the sources
\* get_request_parameter reads.  A request has a JSON body or a form, never
\* both: werkzeug parses the form only of a form content type.
SourcedRequests ==
    {r \in [method : {"GET", "PUT"}, endpoint : {"name", "connected"},
            param : {"", "true"}, json : IntTexts \cup {"", "x"},
            form : IntTexts \cup {"", "x"}, query : IntTexts \cup {"", "x"}] :
        /\ r.json = "" \/ r.form = ""
        /\ r.endpoint = (IF r.method = "GET" THEN "name" ELSE "connected")
        /\ r.param = (IF r.method = "GET" THEN "" ELSE "true")}

\* The routes of the operations the device does not support.
Stubs == {"action", "commandblind", "commandbool", "commandstring"}

\* SpecRequests: the requests of SpecSeq, the unsupported operations and the
\* paths no route names under each method with ClientTransactionID present,
\* absent and malformed, and the requests above.
EveryRequest ==
    AllRequests
    \cup Requests({"PUT"}, Stubs, {""}, ClientIds)
    \cup Requests({"GET", "PUT", "POST", "DELETE"},
                  {"unknown_device", "unknown_path", "root"}, {""}, ClientIds)
    \cup SourcedRequests

\* Spec: the requests that read or write the attributes the poller writes,
\* and one that touches only the transaction counter.
ConcurrentRequests ==
    Requests({"GET"}, {"status", "issafe", "setup"},
             {""}, {""})
    \cup Requests({"PUT"}, {"connected"}, {"true", "false"}, {""})

(* ------------------------- the request handlers ------------------------ *)

\* The requests taken so far: those answered and those in hand.
Received == Len(responses) + Cardinality({t \in Threads : pc[t] # << >>})

\* Flask hands a request to a handler thread.
Receive(t, r) ==
    /\ pc[t] = << >>
    /\ Received < MaxRequests
    /\ req' = [req EXCEPT ![t] = r]
    /\ loc' = [loc EXCEPT ![t] =
                  [NoLocals EXCEPT !.errno = HandlerErrorNumber(Route(r)),
                                   !.roof_status = "UNKNOWN"]]
    /\ pc' = [pc EXCEPT ![t] = RequestSteps(r, roof_classifier_app)]
    /\ UNCHANGED << output_file, engineVars, roof_classifier_app,
                    windowVars, appVars, fnVars, stateVars,
                    server_transaction_id, discovery_socket, pollerVars,
                    stopPc, discVars, responses, ghostVars >>

Step(t, name) == pc[t] # << >> /\ Head(pc[t]) = name

Advance(t) == pc' = [pc EXCEPT ![t] = Tail(pc[t])]

\* status, lines 443-453: the handler's own call of the engine; an exception
\* of it is logged and leaves roof_status "UNKNOWN".
HandlerClassify(t, e) ==
    /\ Step(t, "classify")
    /\ LET d == classify_latest_png(e) IN
       /\ Len(output_file) + Len(d.lines) <= MaxLog
       /\ output_file' = output_file \o d.lines
       /\ loc' = [loc EXCEPT ![t].roof_status =
                     IF d.outcome = "returned" /\ d.status # ""
                     THEN d.status ELSE "UNKNOWN"]
    /\ Advance(t)
    /\ UNCHANGED << engineVars, roof_classifier_app,
                    windowVars, appVars, fnVars, stateVars,
                    server_transaction_id, discovery_socket, pollerVars,
                    stopPc, discVars, req, responses, ghostVars >>

ReadConnected(t) ==
    /\ Step(t, "read_connected")
    /\ loc' = [loc EXCEPT ![t].v_connected = connected]
    /\ Advance(t)
    /\ UNCHANGED << output_file, engineVars, roof_classifier_app,
                    windowVars, appVars, fnVars, stateVars,
                    server_transaction_id, discovery_socket, pollerVars,
                    stopPc, discVars, req, responses, ghostVars >>

ReadIsSafe(t) ==
    /\ Step(t, "read_is_safe")
    /\ loc' = [loc EXCEPT ![t].v_is_safe = is_safe,
                          ![t].w_is_safe = wrote.is_safe,
                          ![t].w_ok = wrote.ok]
    /\ Advance(t)
    /\ UNCHANGED << output_file, engineVars, roof_classifier_app,
                    windowVars, appVars, fnVars, stateVars,
                    server_transaction_id, discovery_socket, pollerVars,
                    stopPc, discVars, req, responses, ghostVars >>

ReadLastUpdate(t) ==
    /\ Step(t, "read_last_update")
    /\ loc' = [loc EXCEPT ![t].v_last_update = last_update]
    /\ Advance(t)
    /\ UNCHANGED << output_file, engineVars, roof_classifier_app,
                    windowVars, appVars, fnVars, stateVars,
                    server_transaction_id, discovery_socket, pollerVars,
                    stopPc, discVars, req, responses, ghostVars >>

ReadLastError(t) ==
    /\ Step(t, "read_last_error")
    /\ loc' = [loc EXCEPT ![t].v_last_error = last_error,
                          ![t].w_last_error = wrote.last_error]
    /\ Advance(t)
    /\ UNCHANGED << output_file, engineVars, roof_classifier_app,
                    windowVars, appVars, fnVars, stateVars,
                    server_transaction_id, discovery_socket, pollerVars,
                    stopPc, discVars, req, responses, ghostVars >>

\* connected (PUT), line 326: self.connected = connected_value.
WriteConnected(t) ==
    /\ Step(t, "write_connected")
    /\ connected' = ParseBool(req[t].param)
    /\ Advance(t)
    /\ UNCHANGED << output_file, engineVars, roof_classifier_app,
                    windowVars, appVars, fnVars, is_safe,
                    last_update, last_error, server_transaction_id,
                    discovery_socket, pollerVars, stopPc, discVars, req, loc, responses, ghostVars >>

Finish(t, response) ==
    /\ responses' = Append(responses, response)
    /\ pc' = [pc EXCEPT ![t] = << >>]
    /\ req' = [req EXCEPT ![t] = NoRequest]
    /\ loc' = [loc EXCEPT ![t] = NoLocals]

\* setup_page: the HTML page, which calls no get_ascom_response.
SetupPage(t) ==
    /\ Step(t, "html")
    /\ Finish(t, [kind |-> "html", stid |-> 0, errno |-> 0])
    /\ UNCHANGED << output_file, engineVars, roof_classifier_app,
                    windowVars, appVars, fnVars, stateVars,
                    server_transaction_id, discovery_socket, pollerVars,
                    stopPc, discVars, ghostVars >>

\* get_ascom_response, lines 187-192.  int() of a ClientTransactionID that is
\* no integer raises before the counter is touched; the handlers' own except
\* branches and handle_error call get_ascom_response again, which raises
\* again, and the transport answers 500 without an envelope.
RespHasattr(t) ==
    /\ Step(t, "resp_hasattr")
    /\ IF get_request_parameter(req[t]) \notin IntTexts \cup {""}
       THEN Finish(t, [kind |-> "bare500", stid |-> 0, errno |-> 0])
       ELSE /\ pc' = [pc EXCEPT ![t] =
                        (IF server_transaction_id = NoAttr
                         THEN << "resp_init" >> ELSE << >>)
                        \o << "resp_load", "resp_store", "resp_read" >>]
            /\ loc' = [loc EXCEPT ![t].client_transaction_id =
                          IF get_request_parameter(req[t]) = "" THEN NoValue
                          ELSE ParseInt(get_request_parameter(req[t]))]
            /\ UNCHANGED << req, responses >>
    /\ UNCHANGED << output_file, engineVars, roof_classifier_app,
                    windowVars, appVars, fnVars, stateVars,
                    server_transaction_id, discovery_socket, pollerVars,
                    stopPc, discVars, ghostVars >>

\* Line 193: self._server_transaction_id = 0.
RespInit(t) ==
    /\ Step(t, "resp_init")
    /\ server_transaction_id' = 0
    /\ Advance(t)
    /\ UNCHANGED << output_file, engineVars, roof_classifier_app,
                    windowVars, appVars, fnVars, stateVars,
                    discovery_socket, pollerVars, stopPc, discVars, req, loc, responses, ghostVars >>

\* Line 194, first half: the load of self._server_transaction_id.
RespLoad(t) ==
    /\ Step(t, "resp_load")
    /\ loc' = [loc EXCEPT ![t].tmp = server_transaction_id]
    /\ Advance(t)
    /\ UNCHANGED << output_file, engineVars, roof_classifier_app,
                    windowVars, appVars, fnVars, stateVars,
                    server_transaction_id, discovery_socket, pollerVars,
                    stopPc, discVars, req, responses, ghostVars >>

RespStore_skip(t) ==
    /\ Step(t, "resp_store")
    /\ server_transaction_id' = loc[t].tmp
    /\ Advance(t)
    /\ UNCHANGED << output_file, engineVars, roof_classifier_app,
                    windowVars, appVars, fnVars, stateVars,
                    discovery_socket, pollerVars, stopPc, discVars, req, loc, responses, ghostVars >>

\* Line 194, second half: the store of the loaded value plus one.
RespStore(t) ==
    /\ Step(t, "resp_store")
    /\ server_transaction_id' = loc[t].tmp + 1
    /\ Advance(t)
    /\ UNCHANGED << output_file, engineVars, roof_classifier_app,
                    windowVars, appVars, fnVars, stateVars,
                    discovery_socket, pollerVars, stopPc, discVars, req, loc, responses, ghostVars >>

\* Lines 195-197: the response takes the attribute's value as it is now.
RespRead(t) ==
    /\ Step(t, "resp_read")
    /\ Finish(t, [kind |-> "envelope", stid |-> server_transaction_id,
                  errno |-> loc[t].errno])
    /\ UNCHANGED << output_file, engineVars, roof_classifier_app,
                    windowVars, appVars, fnVars, stateVars,
                    server_transaction_id, discovery_socket, pollerVars,
                    stopPc, discVars, ghostVars >>

ThreadNext(t) ==
    \/ \E e \in Envs : HandlerClassify(t, e)
    \/ ReadConnected(t)
    \/ ReadIsSafe(t)
    \/ ReadLastUpdate(t)
    \/ ReadLastError(t)
    \/ WriteConnected(t)
    \/ SetupPage(t)
    \/ RespHasattr(t)
    \/ RespInit(t)
    \/ RespLoad(t)
    \/ RespStore(t)
    \/ RespRead(t)

(* -------------------------------- stop --------------------------------- *)

\* stop(), line 533, and stop_discovery_responder, lines 132-134: the socket
\* is closed when there is one.  Nothing else of the server is told to stop.
StopClose ==
    /\ stopPc = "idle"
    /\ IF discovery_socket = "open"
       THEN discovery_socket' = "closed" /\ stopPc' = "clear"
       ELSE UNCHANGED discovery_socket /\ stopPc' = "done"
    /\ UNCHANGED << output_file, engineVars, roof_classifier_app,
                    windowVars, appVars, fnVars, stateVars,
                    server_transaction_id, pollerVars, discVars, threadVars,
                    ghostVars >>

\* stop_discovery_responder, line 135: self.discovery_socket = None.
StopClear ==
    /\ stopPc = "clear"
    /\ discovery_socket' = "none"
    /\ stopPc' = "done"
    /\ UNCHANGED << output_file, engineVars, roof_classifier_app,
                    windowVars, appVars, fnVars, stateVars,
                    server_transaction_id, pollerVars, discVars, threadVars,
                    ghostVars >>

(* ---------------------- the discovery responder ---------------------- *)

\* The port the server was constructed with (the default of __init__).
port == 11111

\* b"alpacadiscovery1", as the chunks a payload is compared by.
Magic == << "alpacadiscovery", "1" >>

Payloads ==
    {Magic, Magic \o << "x" >>, << "alpacadiscovery" >>,
     << "alpacadiscovery", "2" >>, << "hello" >>, << >>}

Senders == {"a", "b"}

\* data.startswith(prefix)
StartsWith(data, prefix) ==
    Len(data) >= Len(prefix) /\ SubSeq(data, 1, Len(prefix)) = prefix

\* Line 102: the loop's test of self.discovery_socket.  A socket object,
\* open or closed, is true; None is false.
DiscTest ==
    /\ discPc = "test"
    /\ discPc' = IF discovery_socket # "none" THEN "recv" ELSE "done"
    /\ UNCHANGED << output_file, engineVars, roof_classifier_app,
                    windowVars, appVars, fnVars, stateVars,
                    server_transaction_id, discovery_socket, pollerVars,
                    stopPc, replies, datagram, disc_errors, disc_warnings, threadVars,
                    ghostVars >>

\* Line 104: recvfrom returns a datagram, or raises: AttributeError on None,
\* OSError on a closed socket ("except_closed"), and whatever the network
\* raises (fault) on an open one ("except").
DiscRecv(data, addr, fault) ==
    /\ discPc = "recv"
    /\ IF discovery_socket = "open"
       THEN /\ Len(replies) < MaxReplies
            /\ IF fault
               THEN discPc' = "except" /\ UNCHANGED datagram
               ELSE /\ discPc' = "check"
                    /\ datagram' = [data |-> data, addr |-> addr]
       ELSE discPc' = "except_closed" /\ UNCHANGED datagram
    /\ UNCHANGED << output_file, engineVars, roof_classifier_app,
                    windowVars, appVars, fnVars, stateVars,
                    server_transaction_id, discovery_socket, pollerVars,
                    stopPc, replies, disc_errors, disc_warnings, threadVars, ghostVars >>

\* Line 107: the test of the payload; any other payload goes back to the
\* loop's test.
DiscCheck ==
    /\ discPc = "check"
    /\ IF StartsWith(datagram.data, Magic)
       THEN discPc' = "send" /\ UNCHANGED datagram
       ELSE discPc' = "test" /\ datagram' = NoDatagram
    /\ UNCHANGED << output_file, engineVars, roof_classifier_app,
                    windowVars, appVars, fnVars, stateVars,
                    server_transaction_id, discovery_socket, pollerVars,
                    stopPc, replies, disc_errors, disc_warnings, threadVars, ghostVars >>

DiscSend_to_all(fault) ==
    /\ discPc = "send"
    /\ datagram' = NoDatagram
    /\ IF discovery_socket = "open" /\ ~fault
       THEN /\ replies' = Append(replies,
                             [to |-> "broadcast", AlpacaPort |-> port])
            /\ discPc' = "test"
       ELSE /\ discPc' = IF discovery_socket = "open"
                         THEN "except" ELSE "except_closed"
            /\ UNCHANGED replies
    /\ UNCHANGED << output_file, engineVars, roof_classifier_app,
                    windowVars, appVars, fnVars, stateVars,
                    server_transaction_id, discovery_socket, pollerVars,
                    stopPc, disc_errors, disc_warnings, threadVars, ghostVars >>

\* Lines 110-121: the response with AlpacaPort, sent to the datagram's
\* sender; sendto raises as recvfrom does.
DiscSend(fault) ==
    /\ discPc = "send"
    /\ datagram' = NoDatagram
    /\ IF discovery_socket = "open" /\ ~fault
       THEN /\ replies' = Append(replies,
                             [to |-> datagram.addr, AlpacaPort |-> port])
            /\ discPc' = "test"
       ELSE /\ discPc' = IF discovery_socket = "open"
                         THEN "except" ELSE "except_closed"
            /\ UNCHANGED replies
    /\ UNCHANGED << output_file, engineVars, roof_classifier_app,
                    windowVars, appVars, fnVars, stateVars,
                    server_transaction_id, discovery_socket, pollerVars,
                    stopPc, disc_errors, disc_warnings, threadVars, ghostVars >>

\* Lines 125-128: the except branch logs the error unless
\* self.discovery_socket is None by now, and leaves the loop.
DiscExcept ==
    /\ discPc \in {"except", "except_closed"}
    /\ disc_errors' = IF discovery_socket # "none"
                      THEN disc_errors + 1 ELSE disc_errors
    /\ discPc' = "done"
    /\ UNCHANGED << output_file, engineVars, roof_classifier_app,
                    windowVars, appVars, fnVars, stateVars,
                    server_transaction_id, discovery_socket, pollerVars,
                    stopPc, replies, datagram, disc_warnings, threadVars,
                    ghostVars >>

(* ------------- calculate_next_observation_window (the search) ---------- *)

\* sun_angle_threshold, and the elevations the sun is seen at: below the
\* threshold, at it, and above it.
threshold_deg == -18

Elevations == {-19, -18, 10}

\* The last time a search can reach: the start of the next window is
\* looked for before two days, its end before a day from that start.
Horizon == 3 * Day - 2

\* What ephem gives one call: whether the module has the attribute
\* degree_per_degree the first statement reads, and the sun's elevation at
\* each half-hour step from now on.
Skies ==
    {[degree_per_degree |-> TRUE, elevation |-> f] :
        f \in [1 .. Horizon + 1 -> Elevations]}
    \cup {[degree_per_degree |-> FALSE,
           elevation |-> [i \in 1 .. Horizon + 1 |-> 10]]}

\* What observer.next_setting gives: the time of the next setting below the
\* horizon, or one of the two circumpolar errors.
Settings ==
    {[raised |-> e, time |-> NoTime] : e \in {"AlwaysUpError", "NeverUpError"}}
    \cup {[raised |-> "", time |-> t] : t \in {1, Day}}

\* sun.compute(observer) at time t, sun.alt in degrees.
alt(t) == sky.elevation[IF t < Horizon THEN t + 1 ELSE Horizon + 1]

\* The history after sun.compute at time t, in the search win.pc names.
Evaluated(t) == Append(evaluations, [search |-> win.pc, time |-> t])

Within_twice(search_time, origin, days) ==
    search_time < origin + 2 * days * Day

\* The loops' tests, search_time < origin + days.
Within(search_time, origin, days) == search_time < origin + days * Day

\* The dictionary with 'error'.
ErrorResult == [NoWindow EXCEPT !.kind = "error"]

WindowRest ==
    << output_file, engineVars, roof_classifier_app, stateVars,
       server_transaction_id, discovery_socket, pollerVars, stopPc, discVars,
       threadVars, ghostVars, appVars, fnVars >>

\* Lines 1413-1494: the call reads the settings and ephem's attribute (a
\* missing attribute raises, and line 1517 returns the error), computes the
\* sun at the current time and takes one of the two branches.
WinCall(s) ==
    /\ win.pc = "idle"
    /\ sky' = s
    /\ IF ~s.degree_per_degree
       THEN /\ window' = ErrorResult
            /\ win' = [win EXCEPT !.pc = "done"]
            /\ UNCHANGED evaluations
       ELSE /\ evaluations' = Evaluated(0)
            /\ win' = [win EXCEPT
                         !.pc = IF s.elevation[1] < threshold_deg
                                THEN "next_setting" ELSE "find_start",
                         !.search_time = 0]
            /\ UNCHANGED window
    /\ UNCHANGED WindowRest

\* Line 1437, and the except branches of lines 1480-1485.
WinNextSetting(setting) ==
    /\ win.pc = "next_setting"
    /\ CASE setting.raised = "AlwaysUpError" ->
              /\ window' = ErrorResult
              /\ win' = [win EXCEPT !.pc = "done"]
         [] setting.raised = "NeverUpError" ->
              /\ window' = [NoWindow EXCEPT !.kind = "always_safe"]
              /\ win' = [win EXCEPT !.pc = "done"]
         [] OTHER ->
              /\ win' = [win EXCEPT !.pc = "find_end",
                                    !.end_time = setting.time,
                                    !.search_time = 0]
              /\ UNCHANGED window
    /\ UNCHANGED << sky, evaluations, WindowRest >>

\* Lines 1441-1447: one turn of the search for the end of the current
\* window; lines 1450-1451 when the loop is left.
WinFindEnd ==
    /\ win.pc = "find_end"
    /\ IF Within(win.search_time, 0, 1)
       THEN /\ evaluations' = Evaluated(win.search_time)
            /\ win' = IF alt(win.search_time) > threshold_deg
                      THEN [win EXCEPT !.pc = "find_next",
                                       !.end_time = win.search_time]
                      ELSE [win EXCEPT !.search_time = win.search_time + 1]
       ELSE /\ win' = [win EXCEPT !.pc = "find_next",
                                  !.search_time = win.end_time]
            /\ UNCHANGED evaluations
    /\ UNCHANGED << sky, window, WindowRest >>

\* Lines 1452-1458: one turn of the search for the start of the next
\* window, from end_time.  When the loop ends without one, line 1460 skips
\* the return and the function falls off its end: it returns None.
WinFindNext ==
    /\ win.pc = "find_next"
    /\ IF Within(win.search_time, 0, 2)
       THEN /\ evaluations' = Evaluated(win.search_time)
            /\ win' = IF alt(win.search_time) < threshold_deg
                      THEN [win EXCEPT !.pc = "find_next_end",
                                       !.start_next = win.search_time,
                                       !.search_time = win.search_time + 1]
                      ELSE [win EXCEPT !.search_time = win.search_time + 1]
            /\ UNCHANGED window
       ELSE /\ window' = [NoWindow EXCEPT !.kind = "None"]
            /\ win' = [win EXCEPT !.pc = "done"]
            /\ UNCHANGED evaluations
    /\ UNCHANGED << sky, WindowRest >>

\* Lines 1462-1478: one turn of the search for the end of the next window,
\* and the return of the current window's end and the next window.
WinFindNextEnd ==
    /\ win.pc = "find_next_end"
    /\ IF Within(win.search_time, win.start_next, 1)
          /\ ~(alt(win.search_time) > threshold_deg)
       THEN /\ evaluations' = Evaluated(win.search_time)
            /\ win' = [win EXCEPT !.search_time = win.search_time + 1]
            /\ UNCHANGED window
       ELSE LET found == Within(win.search_time, win.start_next, 1)
                end_next == IF found THEN win.search_time ELSE NoTime
            IN /\ evaluations' = IF found
                                 THEN Evaluated(win.search_time)
                                 ELSE evaluations
               /\ win' = [win EXCEPT !.pc = "done", !.end_next = end_next]
               /\ window' = [kind |-> "window",
                             current_end |-> win.end_time,
                             next_start |-> win.start_next,
                             next_end |-> end_next,
                             in_window |-> TRUE]
    /\ UNCHANGED << sky, WindowRest >>

\* Lines 1488-1496: not in a window, one turn of the search for the start
\* of the next one; line 1515 when the loop ends without one.
WinFindStart ==
    /\ win.pc = "find_start"
    /\ IF Within(win.search_time, 0, 2)
       THEN /\ evaluations' = Evaluated(win.search_time)
            /\ win' = IF alt(win.search_time) < threshold_deg
                      THEN [win EXCEPT !.pc = "find_start_end",
                                       !.start_next = win.search_time,
                                       !.search_time = win.search_time + 1]
                      ELSE [win EXCEPT !.search_time = win.search_time + 1]
            /\ UNCHANGED window
       ELSE /\ window' = ErrorResult
            /\ win' = [win EXCEPT !.pc = "done"]
            /\ UNCHANGED evaluations
    /\ UNCHANGED << sky, WindowRest >>

\* Lines 1498-1513: one turn of the search for the end of that window, and
\* the return of the next window.
WinFindStartEnd ==
    /\ win.pc = "find_start_end"
    /\ IF Within(win.search_time, win.start_next, 1)
          /\ ~(alt(win.search_time) > threshold_deg)
       THEN /\ evaluations' = Evaluated(win.search_time)
            /\ win' = [win EXCEPT !.search_time = win.search_time + 1]
            /\ UNCHANGED window
       ELSE LET found == Within(win.search_time, win.start_next, 1)
                end_next == IF found THEN win.search_time ELSE NoTime
            IN /\ evaluations' = IF found
                                 THEN Evaluated(win.search_time)
                                 ELSE evaluations
               /\ win' = [win EXCEPT !.pc = "done", !.end_next = end_next]
               /\ window' = [kind |-> "window",
                             current_end |-> NoTime,
                             next_start |-> win.start_next,
                             next_end |-> end_next,
                             in_window |-> FALSE]
    /\ UNCHANGED << sky, WindowRest >>

(* ------------------------- the specifications -------------------------- *)

\* Spec: a handler thread and the poller, every interleaving of their steps.
Next ==
    \/ \E r \in ConcurrentRequests : Receive(1, r)
    \/ ThreadNext(1)
    \/ PollerNext

Spec == InitBound /\ [][Next]_vars

\* SpecThreads: the handler threads, every interleaving of their steps.
ThreadsNext ==
    \/ \E t \in Threads, r \in ConcurrentRequests : Receive(t, r)
    \/ \E t \in Threads : ThreadNext(t)

SpecThreads == InitBound /\ [][ThreadsNext]_vars

\* SpecDisc: the discovery responder and stop(), every interleaving of their
\* steps.
DiscNext ==
    \/ DiscTest
    \/ \E data \in Payloads, addr \in Senders, fault \in BOOLEAN :
          DiscRecv(data, addr, fault)
    \/ DiscCheck
    \/ \E fault \in BOOLEAN : DiscSend(fault)
    \/ DiscExcept
    \/ StopClose
    \/ StopClear

SpecDisc == Init /\ [][DiscNext]_vars

\* SpecRequests: one handler thread, one request after another.
RequestsNext ==
    \/ \E r \in EveryRequest : Receive(1, r)
    \/ ThreadNext(1)

SpecRequests == InitBound /\ [][RequestsNext]_vars

\* SpecSeq: one thing at a time.  A request is taken only between poll
\* cycles and is handled to its response before the poller, stop() or the
\* discovery responder takes a step; a poll cycle runs from its test to its
\* sleep without a request in between.
ThreadQuiet == pc[1] = << >>

PollerQuiet == pollerPc \in {"check", "sleep"}

\* The discovery responder waits in recvfrom, or does not run.
DiscQuiet == discPc \in {"none", "recv", "done"}

SeqNext ==
    \/ \E r \in AllRequests : PollerQuiet /\ DiscQuiet /\ Receive(1, r)
    \/ ThreadNext(1)
    \/ ThreadQuiet /\ DiscQuiet /\ PollCheck
    \/ ThreadQuiet /\ DiscQuiet /\ \E e \in Envs : PollClassify(e)
    \/ ThreadQuiet /\ DiscQuiet /\ \E reading \in SunReadings,
                                        setting \in ThresholdSettings :
                                        PollSunSafe(reading, setting)
    \/ ThreadQuiet /\ DiscQuiet /\ PollWriteSafe
    \/ ThreadQuiet /\ DiscQuiet /\ PollWriteUpdate
    \/ ThreadQuiet /\ DiscQuiet /\ PollWriteError
    \/ ThreadQuiet /\ DiscQuiet /\ PollDefaultSafe
    \/ ThreadQuiet /\ DiscQuiet /\ PollExceptSafe
    \/ ThreadQuiet /\ DiscQuiet /\ PollExceptError
    \/ ThreadQuiet /\ DiscQuiet /\ PollSleep
    \/ ThreadQuiet /\ PollerQuiet /\ DiscQuiet /\ StopClose
    \/ ThreadQuiet /\ PollerQuiet /\ DiscQuiet /\ StopClear
    \/ ThreadQuiet /\ PollerQuiet /\ DiscTest
    \/ ThreadQuiet /\ PollerQuiet /\ \E data \in Payloads, addr \in Senders,
                                          fault \in BOOLEAN :
                                          DiscRecv(data, addr, fault)
    \/ ThreadQuiet /\ PollerQuiet /\ DiscCheck
    \/ ThreadQuiet /\ PollerQuiet /\ \E fault \in BOOLEAN : DiscSend(fault)
    \/ ThreadQuiet /\ PollerQuiet /\ DiscExcept

SpecSeq == Init /\ [][SeqNext]_vars

\* SpecWindow: one call of calculate_next_observation_window, a step per
\* turn of its loops.
WindowNext ==
    \/ win.pc = "idle" /\ \E s \in Skies : WinCall(s)
    \/ \E setting \in Settings : WinNextSetting(setting)
    \/ WinFindEnd
    \/ WinFindNext
    \/ WinFindNextEnd
    \/ WinFindStart
    \/ WinFindStartEnd

SpecWindow == InitBound /\ [][WindowNext]_vars

\* The call runs in one thread, which takes its next step as long as it has
\* one.
SpecWindowLive == SpecWindow /\ WF_vars(WindowNext)

(* ------------------------ the secondary source ------------------------ *)

\* What a call of read_secondary_source or format_observation_window leaves
\* alone.
FnRest ==
    << output_file, engineVars, roof_classifier_app, stateVars,
       server_transaction_id, discovery_socket, pollerVars, stopPc, discVars,
       threadVars, ghostVars, windowVars, appVars >>

\* One call of read_secondary_source, finding the source as f.
ReadSecondary(f) ==
    /\ secondary_source' = f
    /\ secondary_read' = read_secondary_file(f)
    /\ UNCHANGED << obs, obs_window_label, FnRest >>

SecondaryNext == \E f \in SecondaryFiles : ReadSecondary(f)

\* SpecSecondary: one call of read_secondary_source after another, on every
\* state of the source.
SpecSecondary == InitBound /\ [][SecondaryNext]_vars

(* ----------------------- the window's display ------------------------- *)

\* calculate_observation_window, lines 1522-1580, as the triple it returns
\* (NoTime is None).  A setting float() refuses raises in line 1526-1528 and
\* the outer except returns (None, None, None).
calculate_observation_window(s) ==
    IF ~s.numeric
    THEN [window_start |-> NoTime, window_end |-> NoTime,
          next_window_start |-> NoTime]
    ELSE IF s.below
    THEN [window_start |-> NoTime,
          window_end |-> IF s.rising.raised THEN NoTime ELSE s.rising.time,
          next_window_start |->
              IF s.setting.raised THEN NoTime ELSE s.setting.time]
    ELSE IF s.setting.raised \/ s.rising.raised
    THEN [window_start |-> Never, window_end |-> Never,
          next_window_start |-> Never]
    ELSE [window_start |-> s.setting.time, window_end |-> s.rising.time,
          next_window_start |-> NoTime]

\* strptime(str(t), "%Y/%m/%d %H:%M:%S").strftime("%H:%M UTC"): the time of
\* day of the instant, without its date; "Unknown" (NoTime) for None.
Clock(t) == IF t = NoTime THEN NoTime ELSE t % Day

\* format_observation_window, lines 1582-1605.
format_observation_window(s) ==
    LET w == calculate_observation_window(s)
    IN  IF w.window_start = Never
        THEN [NoLabel EXCEPT
                !.text = "Observation Window: Never safe at this location/time"]
        ELSE IF w.window_start = NoTime /\ w.window_end = NoTime
        THEN [NoLabel EXCEPT
                !.text = "Observation Window: Always safe at this location/time"]
        ELSE IF w.window_start = NoTime
        THEN [text |-> "Current Window", from |-> Clock(w.window_end),
              to |-> Clock(w.next_window_start)]
        ELSE [text |-> "Next Window", from |-> Clock(w.window_start),
              to |-> Clock(w.window_end)]

\* One refresh of the label, update_observation_window_display (line 1609).
UpdateDisplay(s) ==
    /\ obs' = s
    /\ obs_window_label' = format_observation_window(s)
    /\ UNCHANGED << secondary_source, secondary_read, FnRest >>

DisplayNext == \E s \in ObsSkies : UpdateDisplay(s)

\* SpecDisplay: one refresh of the window label after another, on every
\* outcome of the calculation's reads.
SpecDisplay == InitBound /\ [][DisplayNext]_vars

(* ------------------- the application's start and stop ------------------ *)

\* What the application's operations leave alone of the monitor it holds.
MonitorRest ==
    << roof_classifier_app, stateVars, server_transaction_id, pollerVars,
       discVars, threadVars, ghostVars, windowVars, fnVars >>

\* start_ascom_server, lines 155-194.  Without Flask, with a server already
\* held, or with a port or device number that int() refuses, nothing is
\* started.  Otherwise a monitor is constructed, whose __init__ starts an
\* update_safety_status thread (ascom_alpaca_safety.py, lines 58-60), and the
\* application holds it.  The monitor's own variables stay those of the first
\* monitor constructed: of a later one only its update thread is counted.
StartServer(flask, numeric) ==
    /\ update_threads < MaxServers
    /\ IF flask /\ ~ascom_server /\ numeric
       THEN /\ ascom_server' = TRUE
            /\ update_threads' = update_threads + 1
       ELSE UNCHANGED << ascom_server, update_threads >>
    /\ UNCHANGED << output_file, engineVars, discovery_socket, stopPc,
                    MonitorRest, stop_monitor, loopPc, remaining, told >>

\* stop_ascom_server, lines 196-208: the server's stop() (which closes the
\* discovery socket and clears it, ascom_alpaca_safety.py lines 527-537 and
\* 130-137) and self.ascom_server = None.  The update thread's loop is
\* "while True" (line 480) and nothing here reaches it.  The socket closed is
\* that of the monitor held, which is the first one while no other was
\* constructed.
StopServer ==
    /\ IF ascom_server
       THEN /\ ascom_server' = FALSE
            /\ IF update_threads = 1 /\ stopPc = "idle"
               THEN /\ stopPc' = "done"
                    /\ discovery_socket' =
                         IF discovery_socket = "open" THEN "none"
                                                      ELSE discovery_socket
               ELSE UNCHANGED << stopPc, discovery_socket >>
       ELSE UNCHANGED << stopPc, discovery_socket, ascom_server >>
    /\ UNCHANGED << output_file, engineVars, MonitorRest, update_threads,
                    stop_monitor, loopPc, remaining, told >>

\* The monitor_loop threads that run.
Alive == {l \in Loops : loopPc[l] \notin {"unborn", "exited", "died"}}

\* start_monitoring, lines 901-933.  Without a model, or with a latitude,
\* longitude or threshold that float() refuses, it returns.  Otherwise it
\* sets self.stop_monitor = False (line 918) and starts a monitor_loop thread
\* (line 931); no test of a loop already running precedes either.
StartMonitoring(model, numeric) ==
    /\ Cardinality({l \in Loops : loopPc[l] # "unborn"}) < MaxLoops
    /\ IF model /\ numeric
       THEN /\ stop_monitor' = FALSE
            /\ loopPc' =
                 [loopPc EXCEPT
                    ![CHOOSE l \in Loops :
                        /\ loopPc[l] = "unborn"
                        /\ \A k \in Loops : k < l => loopPc[k] # "unborn"] =
                      "test"]
       ELSE UNCHANGED << stop_monitor, loopPc >>
    /\ UNCHANGED << output_file, engineVars, discovery_socket, stopPc,
                    MonitorRest, ascom_server, update_threads, remaining,
                    told >>

\* stop_monitoring, lines 935-939: self.stop_monitor = True.
StopMonitoring ==
    /\ stop_monitor' = TRUE
    /\ told' = told \cup Alive
    /\ UNCHANGED << output_file, engineVars, discovery_socket, stopPc,
                    MonitorRest, ascom_server, update_threads, loopPc,
                    remaining >>

\* monitor_loop, line 886: while not self.stop_monitor.
LoopTest(l) ==
    /\ loopPc[l] = "test"
    /\ loopPc' = [loopPc EXCEPT ![l] = IF stop_monitor THEN "exited"
                                                       ELSE "classify"]
    /\ UNCHANGED << output_file, engineVars, discovery_socket, stopPc,
                    MonitorRest, ascom_server, update_threads, stop_monitor,
                    remaining, told >>

\* The environments a running loop classifies in: start_monitoring has seen
\* a model and settings float() accepts, and the sun stands at one angle.
MonitorEnvs ==
    {e \in Envs : e.model /\ e.sun = [ok |-> TRUE, deg |-> 0]
                          /\ (e.folder = "png" => e.threshold.ok)}

\* monitor_loop, line 888: the engine's call.  What the engine raises is
\* caught nowhere in the loop and ends the thread.
LoopClassify(l, e) ==
    /\ loopPc[l] = "classify"
    /\ Len(output_file) + Len(classify_latest_png(e).lines) <= MaxLog
    /\ env' = e
    /\ decision' = classify_latest_png(e)
    /\ output_file' = output_file \o decision'.lines
    /\ IF decision'.outcome = "raised"
       THEN /\ loopPc' = [loopPc EXCEPT ![l] = "died"]
            /\ UNCHANGED remaining
       ELSE /\ loopPc' = [loopPc EXCEPT ![l] = "tick"]
            /\ remaining' = [remaining EXCEPT ![l] = check_interval]
    /\ UNCHANGED << discovery_socket, stopPc, MonitorRest, ascom_server,
                    update_threads, stop_monitor, told >>

\* monitor_loop, lines 892-896: one turn of the countdown.  The range
\* exhausted, or the flag seen set, the loop goes back to its while test;
\* otherwise it sleeps a second.
LoopTick(l) ==
    /\ loopPc[l] = "tick"
    /\ IF remaining[l] = 0 \/ stop_monitor
       THEN /\ loopPc' = [loopPc EXCEPT ![l] = "test"]
            /\ UNCHANGED remaining
       ELSE /\ remaining' = [remaining EXCEPT ![l] = remaining[l] - 1]
            /\ UNCHANGED loopPc
    /\ UNCHANGED << output_file, engineVars, discovery_socket, stopPc,
                    MonitorRest, ascom_server, update_threads, stop_monitor,
                    told >>

\* SpecApp: the application's four buttons and the monitoring loops they
\* start, in every interleaving.
AppNext ==
    \/ \E flask \in BOOLEAN, numeric \in BOOLEAN : StartServer(flask, numeric)
    \/ StopServer
    \/ \E model \in BOOLEAN, numeric \in BOOLEAN :
         StartMonitoring(model, numeric)
    \/ StopMonitoring
    \/ \E l \in Loops : LoopTest(l)
    \/ \E l \in Loops, e \in MonitorEnvs : LoopClassify(l, e)
    \/ \E l \in Loops : LoopTick(l)

SpecApp == InitBound /\ [][AppNext]_vars

(* ======================= the decision engine's claims ================== *)

\* The sun angle the last decision compared with the threshold.
DecisionSunAngle == calculate_sun_angle(env.sun)

\* The last call reached the guard rails with a numeric threshold.
Decided == decision.image_status # "" /\ env.threshold.ok

\* C3: a decision whose raw classification is OPEN and whose sun angle is at
\* or above the threshold (equal included) has final status CLOSED and is
\* marked overridden.
C3_OpenSunHighIsClosedOverridden ==
    (Decided /\ decision.image_status = "OPEN"
             /\ DecisionSunAngle >= env.threshold.deg)
        => (decision.status = "CLOSED" /\ decision.overridden)

\* A returned decision on OPEN with the sun exactly at the threshold.
C3_Witness ==
    /\ Decided /\ decision.outcome = "returned"
    /\ decision.image_status = "OPEN"
    /\ env.sun.ok /\ env.sun.deg = env.threshold.deg
    /\ decision.status = "CLOSED"

\* C4: a decision whose raw classification is OPEN and whose sun angle is
\* strictly below the threshold has final status OPEN and is not overridden.
C4_OpenSunLowIsOpen ==
    (Decided /\ decision.image_status = "OPEN"
             /\ DecisionSunAngle < env.threshold.deg)
        => (decision.status = "OPEN" /\ ~decision.overridden)

\* A returned decision on OPEN with the sun one degree below the threshold.
C4_Witness ==
    /\ Decided /\ decision.outcome = "returned"
    /\ decision.image_status = "OPEN"
    /\ env.sun.ok /\ env.sun.deg + 1 = env.threshold.deg
    /\ decision.status = "OPEN"
    /\ output_file # << >>

\* C5: a raw classification of CLOSED gives final status CLOSED whatever the
\* sun angle and threshold, and final status OPEN occurs only on a raw
\* classification of OPEN.
C5_OverrideOnlyCloses ==
    /\ decision.image_status = "CLOSED" => decision.status = "CLOSED"
    /\ decision.status = "OPEN" => decision.image_status = "OPEN"

\* A returned decision on CLOSED while the sun is below the threshold.
C5_Witness ==
    /\ Decided /\ decision.outcome = "returned"
    /\ decision.image_status = "CLOSED"
    /\ env.sun.ok /\ env.sun.deg < env.threshold.deg
    /\ decision.status = "CLOSED" /\ ~decision.overridden

(* ================== the transaction counter's claims =================== *)

\* The envelope responses, in the order sent.
Envelopes == SelectSeq(responses, LAMBDA r : r.kind = "envelope")

\* C1: under any interleaving of concurrently handled requests, no two
\* envelope responses carry the same ServerTransactionID.
C1_ServerTransactionIDsDiffer ==
    \A i, j \in 1 .. Len(Envelopes) :
        i # j => Envelopes[i].stid # Envelopes[j].stid

\* C2: of requests handled one after another, on whatever endpoints, the
\* k-th envelope response carries ServerTransactionID k; the setup page
\* takes no value.
C2_KthEnvelopeCarriesK ==
    \A k \in 1 .. Len(Envelopes) : Envelopes[k].stid = k

\* Two envelopes, one of a handler that reports an error and one of a
\* handler that reports none, the second with ServerTransactionID 2.
C2_Witness ==
    /\ Len(Envelopes) = 2
    /\ Envelopes[1].errno # Envelopes[2].errno
    /\ Envelopes[2].stid = 2

(* ========================== the poller's claims ======================== *)

\* The poller takes a step.
PollerSteps == pollerPc' # pollerPc

\* C6: a poll cycle that begins while connected is false does not call the
\* engine (the poller appends no line to the status file) and ends with
\* is_safe true.
C6_DisconnectedCycleIsSafe ==
    [][/\ (pollerPc = "check" /\ PollerSteps /\ ~connected)
            => poll'.branch = "disconnected"
       /\ (poll'.branch = "disconnected" /\ PollerSteps)
            => /\ pollerPc' \in {"default_safe", "sleep"}
               /\ output_file' = output_file
               /\ pollerPc' = "sleep" => is_safe']_vars

\* The second cycle began disconnected and has ended with is_safe true,
\* after a first, connected cycle whose decision is in the status file.
C6_Witness ==
    /\ pollerPc = "sleep" /\ poll.branch = "disconnected"
    /\ cycle = 2 /\ last_update = 1 /\ output_file # << >>
    /\ ~connected /\ is_safe

\* C7: a connected poll cycle a step of which failed (the classifier, the
\* sun angle, the append to the status file) ends with is_safe false and a
\* non-empty last_error.
C7_FailedCycleEndsUnsafe ==
    [][(/\ pollerPc # "sleep" /\ pollerPc' = "sleep"
        /\ poll.failure \in {"classifier", "sun_angle", "io"})
          => (is_safe' = FALSE /\ last_error' # "")]_vars

\* The last_error thread t read is the one the update that wrote the is_safe
\* it read left, or a later one.
ErrorNotOlder(t) ==
    loc[t].w_last_error >= loc[t].w_is_safe \/ loc[t].v_last_error = ""

\* C8: a request that has read is_safe as a successful update of the poller
\* wrote it has not read a last_update or a last_error older than that
\* update's (status reads all three, issafe reads is_safe and last_error).
C8_UpdateIsAtomic ==
    \A t \in Threads :
        (Step(t, "resp_hasattr") /\ loc[t].w_ok) =>
            /\ Route(req[t]) = "status"
                 => loc[t].v_last_update >= loc[t].w_is_safe /\ ErrorNotOlder(t)
            /\ Route(req[t]) = "issafe" => ErrorNotOlder(t)

\* C9: once stop() has returned, the poller starts no further poll cycle.
C9_NoCycleAfterStop ==
    [][stopPc = "done" => ~(pollerPc = "sleep" /\ pollerPc' = "check")]_vars

\* C10: connected changes only in the step of a PUT on the connected route
\* that assigns it.
C10_OnlyPutConnectedWritesConnected ==
    [][connected' # connected =>
          \E t \in Threads : /\ Step(t, "write_connected")
                             /\ req[t].method = "PUT"
                             /\ Route(req[t]) = "connected"]_vars

\* connected is still true, as a PUT set it, after a GET, a connected poll
\* cycle and a discovery exchange.
C10_Witness ==
    /\ connected
    /\ Len(responses) = 2 /\ responses[1].errno = 0 /\ responses[2].errno = 0
    /\ pollerPc = "sleep" /\ poll.branch \in {"updated", "exception"}
    /\ replies # << >>

(* ========================= the requests' claims ======================== *)

\* Thread t's step sends the response of its request.
Answers(t) == pc[t] # << >> /\ pc'[t] = << >>

\* The response just sent.
LastResponse == responses'[Len(responses')]

\* C11: no request is answered without an envelope, whatever was raised
\* while it was handled (the setup page is the one response that is a page).
C11_EveryResponseHasEnvelope ==
    \A i \in 1 .. Len(responses) : responses[i].kind \in {"envelope", "html"}

\* Thread t handles a PUT on connected whose Connected parameter is missing
\* or no boolean.
BadConnectedPut(t) ==
    /\ req[t].method = "PUT" /\ Route(req[t]) = "connected"
    /\ req[t].param \in {"", "abc"}

\* C12: a PUT on connected whose Connected parameter is missing or no boolean
\* leaves connected as it is and is answered with ErrorNumber 1.
C12_BadConnectedIsAnError ==
    [][\A t \in Threads :
          BadConnectedPut(t) =>
              /\ connected' = connected
              /\ Answers(t) => (LastResponse.kind = "envelope"
                                  /\ LastResponse.errno = 1)]_vars

\* Thread t handles a request on a path no route names, or with a method
\* no route of the path takes.
Unrecognized(t) ==
    /\ pc[t] # << >>
    /\ Route(req[t]) \in {"catch_all_device", "catch_all", "http_error"}

\* C13: a request on an unrecognized path, with any method, changes nothing
\* but the transaction counter and is answered with an envelope whose
\* ErrorNumber is 1.
C13_UnrecognizedIsEnvelopeError ==
    [][\A t \in Threads :
          Unrecognized(t) =>
              /\ UNCHANGED << stateVars, output_file >>
              /\ Answers(t) => (LastResponse.kind = "envelope"
                                  /\ LastResponse.errno = 1)]_vars

\* C14: the envelope a handler is about to send holds ClientTransactionID
\* exactly when a source of the request holds one, and its value is the JSON
\* body's when that holds one, else the form's, else the query's.
C14_ClientTransactionIDEchoed ==
    \A t \in Threads :
        Step(t, "resp_read") =>
            LET r == req[t]
                id == loc[t].client_transaction_id
            IN /\ id # NoValue <=> (r.json # "" \/ r.form # "" \/ r.query # "")
               /\ r.json # "" => id = ParseInt(r.json)
               /\ (r.json = "" /\ r.form # "") => id = ParseInt(r.form)
               /\ (r.json = "" /\ r.form = "" /\ r.query # "")
                    => id = ParseInt(r.query)

\* An envelope about to be sent for a request whose JSON body and query hold
\* different values: the body's is echoed.
C14_Witness ==
    /\ Step(1, "resp_read")
    /\ req[1].json = "7" /\ req[1].query = "8"
    /\ loc[1].client_transaction_id = 7

(* ==================== the discovery responder's claims =============== *)

\* C15: a datagram that starts with the probe is answered with one reply, to
\* its sender, whose AlpacaPort is the server's port; a datagram with another
\* payload is answered with nothing and the responder goes on listening; and
\* no reply is sent otherwise.
C15_OneReplyPerProbe ==
    [][/\ (discPc = "check" /\ discPc' # "check") =>
             IF StartsWith(datagram.data, Magic)
             THEN discPc' = "send" /\ datagram' = datagram
             ELSE discPc' = "test" /\ replies' = replies
       /\ (discPc = "send" /\ discPc' = "test") =>
             replies' = Append(replies, [to |-> datagram.addr,
                                         AlpacaPort |-> port])
       /\ replies' # replies =>
             (discPc = "send" /\ StartsWith(datagram.data, Magic)
                /\ Len(replies') = Len(replies) + 1)]_vars

\* A probe sent by "b" has been answered to "b" with the server's port.
C15_Witness ==
    /\ Len(replies) = 1
    /\ replies[1] = [to |-> "b", AlpacaPort |-> 11111]
    /\ discPc = "test"

\* C16: the responder, once it runs, runs until stop() is called.
C16_RunsUntilStopped == stopPc = "idle" => discPc # "done"

\* C17: the exception the closed or cleared socket raises in the responder is
\* not logged as an error.
C17_StopLogsNoError ==
    [][discPc = "except_closed" => disc_errors' = disc_errors]_vars

\* C18: when the bind of the discovery port failed, no responder runs, the
\* socket attribute is None, one warning has been logged and nothing is ever
\* replied or logged by a responder, while requests are answered and poll
\* cycles run.
C18_UnboundDiscoveryIsOff ==
    discPc = "none" =>
        /\ discovery_socket = "none"
        /\ disc_warnings = 1
        /\ replies = << >> /\ datagram = NoDatagram /\ disc_errors = 0

\* Without discovery, a request has been answered with an envelope and the
\* poller has run its first cycle and begun its second.
C18_Witness ==
    /\ discPc = "none" /\ discovery_socket = "none"
    /\ Len(responses) = 1 /\ responses[1].kind = "envelope"
    /\ cycle = 2 /\ pollerPc = "sleep"

(* ======================== the status file's claims ===================== *)

\* C19: every call of the engine that returns a decision appends one line at
\* the end of the status file and leaves the lines before it as they were.
C19_EveryDecisionAppendsOneLine ==
    [][decision'.outcome = "returned" =>
          /\ Len(output_file') = Len(output_file) + 1
          /\ SubSeq(output_file', 1, Len(output_file)) = output_file]_vars

\* C20: the line a decision appends holds the decision's final status, and
\* the override suffix exactly when the raw classification is OPEN and the
\* sun is not safe for open.
C20_LineReportsDecision ==
    decision.lines # << >> =>
        /\ Len(decision.lines) = 1
        /\ output_file[Len(output_file)] = decision.lines[1]
        /\ decision.lines[1].status = decision.status
        /\ decision.lines[1].suffix \in {"", OverrideSuffix}
        /\ decision.lines[1].suffix = OverrideSuffix
             <=> (decision.image_status = "OPEN"
                    /\ ~is_sun_safe_for_open(env.sun, env.threshold))

\* A decision on OPEN with the sun above the threshold has appended CLOSED
\* with the suffix.
C20_Witness ==
    /\ decision.outcome = "returned" /\ decision.image_status = "OPEN"
    /\ env.sun.ok /\ env.threshold.ok /\ env.sun.deg > env.threshold.deg
    /\ output_file = << [status |-> "CLOSED",
                         suffix |-> " (Sun too high - safety override)"] >>

(* ===================== the decision engine's claims ==================== *)

\* The decision of the engine on the environment of the last call with the
\* secondary source in state src.
DecisionWith(src) == classify_latest_png([env EXCEPT !.secondary = src])

\* C21: whatever state the secondary source is in, the call returns or
\* raises as it would with the source disabled, with the same status, the
\* same override flag and the same appended line; only the log message
\* differs.
C21_SecondarySourceHasNoInfluence ==
    decision.outcome # "none" =>
        \A src \in SecondarySources :
            /\ DecisionWith(src).outcome = decision.outcome
            /\ DecisionWith(src).filename = decision.filename
            /\ DecisionWith(src).status = decision.status
            /\ DecisionWith(src).overridden = decision.overridden
            /\ DecisionWith(src).lines = decision.lines

\* A decision made with a secondary source that could not be read, and one
\* whose secondary source says OPEN while the decision is CLOSED.
C21_Witness ==
    /\ decision.outcome = "returned" /\ decision.status = "CLOSED"
    /\ env.secondary = "Open" /\ decision.log_secondary = "OPEN"
    /\ DecisionWith("unreadable").outcome = "returned"
    /\ DecisionWith("unreadable").log_secondary = "Not available"

\* C22: an undeterminable classifier result gives a returned decision whose
\* final status is CLOSED.
C22_UndeterminableIsClosed ==
    (decision.outcome # "none" /\ Undeterminable(env)) =>
        (decision.outcome = "returned" /\ decision.status = "CLOSED")

\* C23: when the sun angle or the threshold cannot be computed, a raw
\* classification of OPEN is decided as not sun safe and CLOSED.
C23_FailedSunCheckIsUnsafe ==
    (/\ decision.outcome = "returned" /\ decision.image_status = "OPEN"
     /\ (~env.sun.ok \/ ~env.threshold.ok)) =>
        (~decision.sun_safe /\ decision.status = "CLOSED")

\* C24: a call whose classifier fails returns a decision with final status
\* CLOSED; it does not raise.
C24_ClassifierFailureIsClosed ==
    (decision.outcome # "none" /\ EngineFailure(env) = "classifier") =>
        (decision.outcome = "returned" /\ decision.status = "CLOSED")

(* ==================== the window calculator's claims ================== *)

\* The evaluations a call can make: one for the current angle, a day's for
\* the end of the current window, two days' for the start of the next and
\* less than a day's for its end.
MaxEvaluations == 4 * Day

\* C26: every call of the window calculator returns, after no more than
\* MaxEvaluations computations of the sun's elevation.
C26_WindowSearchTerminates ==
    /\ <>(win.pc = "done")
    /\ [](Len(evaluations) <= MaxEvaluations)

\* A call on a sun that stays above the threshold has returned after looking
\* at every step of two days.
C26_Witness ==
    /\ win.pc = "done" /\ sky.degree_per_degree
    /\ \A i \in DOMAIN sky.elevation : sky.elevation[i] > threshold_deg
    /\ Len(evaluations) = 2 * Day + 1

C28_SunUpGivesNextWindow ==
    (win.pc = "done" /\ threshold_deg = -18 /\ sky.elevation[1] = 10) =>
        /\ window.kind = "window" /\ ~window.in_window
        /\ window.next_start # NoTime /\ window.next_end # NoTime
        /\ 0 < window.next_start /\ window.next_start < window.next_end

\* C29: a call on a sun that stays below the threshold returns the always
\* safe sentinel, and a call on a sun that never is below it returns a never
\* safe sentinel.
C29_NoCrossingGivesSentinel ==
    win.pc = "done" =>
        /\ (\A i \in DOMAIN sky.elevation : sky.elevation[i] < threshold_deg)
              => window.kind = "always_safe"
        /\ (\A i \in DOMAIN sky.elevation : sky.elevation[i] >= threshold_deg)
              => window.kind = "never_safe"

(* ================= the unsupported operations' claim ================== *)

\* C25: a PUT on action, commandblind, commandbool or commandstring changes
\* nothing but the transaction counter and is answered with an envelope
\* whose ErrorNumber is 1.
C25_StubsAnswerNotSupported ==
    [][\A t \in Threads :
          (pc[t] # << >> /\ Route(req[t]) \in Stubs) =>
              /\ UNCHANGED << stateVars, output_file >>
              /\ Answers(t) => (LastResponse.kind = "envelope"
                                  /\ LastResponse.errno = 1)]_vars

(* ======================== the verdict's claim ========================== *)

\* C30: when GET issafe answers true while connected is true, the value it
\* read was written by a poll cycle's update from a decision OPEN with the
\* sun safe (line 492), not by __init__ or by the branch of a disconnected
\* cycle.
C30_SafeVerdictComesFromACycle ==
    [][\A t \in Threads :
          (/\ Answers(t) /\ Route(req[t]) = "issafe"
           /\ LastResponse.kind = "envelope"
           /\ loc[t].v_is_safe /\ connected) => loc[t].w_ok]_vars

(* ========================= the poller's claims ========================= *)

\* C31: in a connected poll cycle in which nothing raised, the value computed
\* for is_safe is true exactly when the engine's status is OPEN and the sun
\* angle the poller read is below the threshold it read; at the end of the
\* cycle is_safe holds that value, last_error is empty and last_update is
\* the cycle's time.
C31_UpdatedCycleSetsVerdict ==
    [][/\ (pollerPc = "sun_safe" /\ pollerPc' = "write_safe"
             /\ poll'.failure = "") =>
              (poll'.is_safe <=> (poll.status = "OPEN" /\ poll'.sun_below))
       /\ (pollerPc = "write_error" /\ pollerPc' = "sleep"
             /\ poll.failure = "") =>
              (/\ is_safe' = poll.is_safe
               /\ last_error' = ""
               /\ last_update' = cycle)]_vars

\* The second cycle, connected, has ended on OPEN with the sun below the
\* threshold: is_safe is true, written by that cycle.
C31_Witness ==
    /\ pollerPc = "sleep" /\ poll.branch = "updated" /\ cycle = 2
    /\ connected /\ is_safe /\ last_error = "" /\ last_update = 2
    /\ wrote = [is_safe |-> 2, last_error |-> 2, ok |-> TRUE]

\* C32: after a connected poll cycle in which the engine had no
\* classification to give (no model, invalid folder, no PNG file), is_safe
\* is false and last_error holds a message.
C32_UnavailableCycleSetsLastError ==
    (pollerPc = "sleep" /\ poll.unavailable) =>
        (~is_safe /\ last_error # "")

(* ========================== the frame claims =========================== *)

\* C33: no step of the handling of a GET request changes connected, is_safe,
\* last_update or last_error, or appends a line to the status file.
C33_GetChangesNothing ==
    [][\A t \in Threads :
          (pc[t] # << >> /\ req[t].method = "GET") =>
              UNCHANGED << stateVars, output_file >>]_vars


\* C34: through any starts and stops of the server, at most one
\* update_safety_status thread is alive, and none while the application
\* holds no server.
C34_AtMostOnePollerNoneWhenStopped ==
    /\ update_threads <= 1
    /\ ~ascom_server => update_threads = 0

\* C35: through any starts and stops of monitoring, at most one
\* monitor_loop runs, and a loop that ran when stop_monitoring was called
\* starts no further classification.
C35_OneLoopAndStoppedLoopsExit ==
    /\ [](Cardinality(Alive) <= 1)
    /\ [][\A l \in told :
            ~(loopPc[l] # "classify" /\ loopPc'[l] = "classify")]_vars

\* The last line of the source read, in upper case.
C36_Last ==
    Upper(secondary_source.lines[Len(secondary_source.lines)])

\* The source read is enabled, has a path, and is a readable file with a
\* line.
C36_HasLine ==
    /\ secondary_source.enabled /\ secondary_source.path
    /\ secondary_source.exists /\ secondary_source.readable
    /\ secondary_source.lines # << >>

\* C36: reading the secondary source never raises; it yields OPEN or CLOSED
\* only for a word its last line holds in whatever case, whatever the lines
\* before say, and yields nothing when the source is disabled, without path,
\* missing or empty, or when its last line holds neither word.
C36_LastLineDecides ==
    secondary_read # NoRead =>
        /\ ~secondary_read.raised
        /\ secondary_read.status \in {"OPEN", "CLOSED", ""}
        /\ secondary_read.status = "OPEN" =>
               C36_HasLine /\ In(OPEN, C36_Last)
        /\ secondary_read.status = "CLOSED" =>
               C36_HasLine /\ In(CLOSED, C36_Last)
        /\ secondary_read.status = "" =>
               \/ ~C36_HasLine
               \/ ~In(OPEN, C36_Last) /\ ~In(CLOSED, C36_Last)

\* A file whose first line says OPEN and whose last line says "closed" was
\* read as CLOSED.
C36_Witness ==
    /\ C36_HasLine
    /\ secondary_source.lines =
         << << "O", "P", "E", "N", "\n" >>,
            << "c", "l", "o", "s", "e", "d", "\n" >> >>
    /\ secondary_read = [raised |-> FALSE, status |-> "CLOSED"]

\* C38: the label reads "Always safe" only when the sun is below the
\* threshold and never rises above it, and when the calculation failed on a
\* setting that is no number it reads an error, neither "Always safe" nor
\* "Never safe".
C38_FailureIsDisplayedAsError ==
    /\ obs_window_label.text =
         "Observation Window: Always safe at this location/time" =>
           obs.numeric /\ obs.below /\ obs.rising.raised
    /\ (obs_window_label # NoLabel /\ ~obs.numeric) =>
           obs_window_label.text = "Observation Window: Error calculating"

====
